---- MODULE Spec2Model ----
(***************************************************************************)
(* Model of the MeshChat synchronisation engine (meshchat/meshchat.py) and *)
(* of the request handlers and scheduled jobs that drive it                *)
(* (meshchat_flask.py).                                                    *)
(*                                                                         *)
(* The sqlite connection self.db is modelled by the four tables as the     *)
(* connection sees them (messages, users, files, nodes: uncommitted        *)
(* changes of an open transaction included) and by the record "committed", *)
(* the tables as every other connection sees them.  db.commit() copies     *)
(* the former into the latter.                                             *)
(*                                                                         *)
(* A feed text is modelled after splitlines() and split('\t'): a sequence  *)
(* of lines, each line a sequence of fields.  The id field of a message    *)
(* line is a sequence of hexadecimal digits.                               *)
(***************************************************************************)
EXTENDS Integers, Sequences, FiniteSets, TLC

\* ------------------------------------------------------------------ bounds
\* longest feed merged; the retention limit (500 by default in the code)
MaxFeedLen == 2
max_messages == 2

\* --------------------------------------------------------------- constants
HexWidth == 8
MsgFields == 7
UserFields == 5
FileFields == 5

\* message ids (0x2a, 0x54, 0x7e, 0xa8) and epochs of the messages that are merged
\* and created
MsgIds == {42, 84, 126, 168}
Epochs == {1, 2}
LocalNode == "nodeA"

\* ------------------------------------------------------------- hex fields
RECURSIVE HexDigits(_)
HexDigits(n) ==
    IF n < 16 THEN <<n>> ELSE Append(HexDigits(n \div 16), n % 16)

RECURSIVE ZeroPad(_, _)
ZeroPad(s, w) ==
    IF Len(s) >= w THEN s ELSE ZeroPad(<<0>> \o s, w)

\* f'{id:08x}'
FormatHex(n) == ZeroPad(HexDigits(n), HexWidth)

IsHex(s) == Len(s) > 0 /\ \A i \in 1..Len(s) : s[i] \in 0..15

RECURSIVE HexValue(_, _)
\* value of the first n digits of s
HexValue(s, n) ==
    IF n = 0 THEN 0 ELSE 16 * HexValue(s, n - 1) + s[n]

\* int(s, 16)
ParseHex(s) == HexValue(s, Len(s))

\* ------------------------------------------------------------------ feeds
MsgLine(id, e) == <<FormatHex(id), e, "hello", "KB1XYZ", LocalNode, "pi", "general">>

GoodMsgLines == {MsgLine(id, e) : id \in MsgIds, e \in Epochs}

\* a line with six fields, one with eight, one whose id is not hexadecimal
ShortMsgLine == <<FormatHex(42), 1, "hello", "KB1XYZ", LocalNode, "pi">>
LongMsgLine == <<FormatHex(84), 1, "hello", "KB1XYZ", LocalNode, "pi", "general", "extra">>
BadHexMsgLine == <<<<16>>, 1, "hello", "KB1XYZ", LocalNode, "pi", "general">>

\* the lines of the feeds merged: the well-formed ones and a short one
MsgLines == GoodMsgLines \cup {ShortMsgLine}

SeqsUpTo(S, n) == UNION {[1..k -> S] : k \in 0..n}

MsgFeeds == SeqsUpTo(MsgLines, MaxFeedLen)

WellFormedMsgFeed(feed) == \A i \in 1..Len(feed) : feed[i] \in GoodMsgLines

\* users and files lines keep every field as the text split('\t') returns
UserLine(cs, e) == <<cs, "id1", "nodeB", e, "pi">>
ShortUserLine == <<"KB1XYZ", "id1", "nodeB", "100">>
\* the user of UserLine("KB1XYZ", e) as another platform reports them
OtherPlatformUserLine == <<"KB1XYZ", "id1", "nodeB", "50", "aredn">>
FileLine(size) == <<"a.txt", "nodeB", size, "100", "pi">>
ShortFileLine == <<"a.txt", "nodeB", "10", "100">>

\* ------------------------------------------------------------- state
VARIABLES
    messages,   \* table messages as seen by self.db
    users,      \* table users as seen by self.db
    files,      \* table files as seen by self.db
    nodes,      \* table nodes as seen by self.db
    committed,  \* the four tables as last committed (seen by other connections)
    pc,         \* call stack of the engine, innermost first; <<>> when idle
    todo,       \* peers the running refresh cycle has still to poll
    polled,     \* peers the running refresh cycle has sent a request to, in order
    raised,     \* exception that ended the last call ("none" if it returned)
    pruned,     \* messages_over_limit printed by the last prune_messages (0 if none)
    mesh        \* the engines of a mesh of two nodes that poll each other

vars == <<messages, users, files, nodes, committed, pc, todo, polled, raised, pruned, mesh>>

Idle == pc = <<>>

Tables == [messages |-> messages, users |-> users, files |-> files, nodes |-> nodes]

IdsOf(tbl) == {r.id : r \in tbl}

\* ------------------------------------------------------------ messages
MsgRow(t) ==
    [id |-> t[1], epoch |-> t[2], message |-> t[3], call_sign |-> t[4],
     node |-> t[5], platform |-> t[6], channel |-> t[7]]

\* tuple([int(line.split('\t')[0], 16)] + line.split('\t')[1:7])
MsgTuple(line) ==
    <<ParseHex(line[1])>> \o SubSeq(line, 2, IF Len(line) < 7 THEN Len(line) ELSE 7)

RECURSIVE ExecuteManyInsert(_, _)
\* cur.executemany('INSERT INTO messages ...', rows): one INSERT per tuple,
\* stopping at the first one that raises; the earlier ones stay in the
\* transaction
ExecuteManyInsert(tbl, rows) ==
    IF Len(rows) = 0 THEN [tbl |-> tbl, err |-> "none"]
    ELSE IF Len(Head(rows)) # MsgFields THEN [tbl |-> tbl, err |-> "ProgrammingError"]
    ELSE IF Head(rows)[1] \in IdsOf(tbl) THEN [tbl |-> tbl, err |-> "IntegrityError"]
    ELSE ExecuteManyInsert(tbl \cup {MsgRow(Head(rows))}, Tail(rows))

\* ORDER BY id DESC instead
IdDescBefore(a, b) == a.id > b.id

\* (epoch, id) of a precedes that of b under ORDER BY epoch DESC, id DESC
DescBefore(a, b) == a.epoch > b.epoch \/ (a.epoch = b.epoch /\ a.id > b.id)

RECURSIVE OrderByEpochDescIdDesc(_)
OrderByEpochDescIdDesc(tbl) ==
    IF tbl = {} THEN <<>>
    ELSE LET first == CHOOSE r \in tbl : \A o \in tbl \ {r} : DescBefore(r, o)
         IN  <<first>> \o OrderByEpochDescIdDesc(tbl \ {first})

\* prune_messages: the table after the DELETE
PruneMessages(tbl) ==
    LET message_count == Cardinality(tbl)
        messages_over_limit == message_count - max_messages
    IN  IF messages_over_limit > 0
        THEN LET ordered == OrderByEpochDescIdDesc(tbl)
                 ids == {ordered[i].id : i \in 1..messages_over_limit}
             IN  {r \in tbl : r.id \notin ids}
        ELSE tbl

\* SELECT sum(id) FROM messages; 0 when the table is empty
RECURSIVE SumIds(_)
SumIds(S) ==
    IF S = {} THEN 0
    ELSE LET x == CHOOSE x \in S : TRUE IN x + SumIds(S \ {x})

\* SELECT sum(id * epoch) FROM messages instead
GetEpochWeightedVersion(tbl) == SumIds({r.id * r.epoch : r \in tbl})

\* get_message_version
GetMessageVersion(tbl) == SumIds(IdsOf(tbl))

\* ------------------------------------------------------- users, files
UserRow(t) ==
    [call_sign |-> t[1], id |-> t[2], node |-> t[3], epoch |-> t[4], platform |-> t[5]]

\* VALUES (?, ?, ?, ?, ?, 1) instead
LocalFileRow(t) ==
    [file |-> t[1], node |-> t[2], size |-> t[3], epoch |-> t[4], platform |-> t[5],
     local |-> 1]

FileRow(t) ==
    [file |-> t[1], node |-> t[2], size |-> t[3], epoch |-> t[4], platform |-> t[5],
     local |-> 0]

\* INSERT OR IGNORE INTO users instead
InsertOrIgnoreUser(tbl, row) ==
    IF \E r \in tbl : r.id = row.id /\ r.call_sign = row.call_sign /\ r.node = row.node
    THEN tbl ELSE tbl \cup {row}

\* REPLACE INTO users: UNIQUE(id, call_sign, node)
ReplaceUser(tbl, row) ==
    {r \in tbl : ~(r.id = row.id /\ r.call_sign = row.call_sign /\ r.node = row.node)}
        \cup {row}

\* REPLACE INTO files: UNIQUE(file, node)
ReplaceFile(tbl, row) ==
    {r \in tbl : ~(r.file = row.file /\ r.node = row.node)} \cup {row}

RECURSIVE ExecuteManyReplaceUsers(_, _)
ExecuteManyReplaceUsers(tbl, rows) ==
    IF Len(rows) = 0 THEN [tbl |-> tbl, err |-> "none"]
    ELSE IF Len(Head(rows)) # UserFields THEN [tbl |-> tbl, err |-> "ProgrammingError"]
    ELSE ExecuteManyReplaceUsers(ReplaceUser(tbl, UserRow(Head(rows))), Tail(rows))

RECURSIVE ExecuteManyReplaceFiles(_, _)
ExecuteManyReplaceFiles(tbl, rows) ==
    IF Len(rows) = 0 THEN [tbl |-> tbl, err |-> "none"]
    ELSE IF Len(Head(rows)) # FileFields THEN [tbl |-> tbl, err |-> "ProgrammingError"]
    ELSE ExecuteManyReplaceFiles(ReplaceFile(tbl, FileRow(Head(rows))), Tail(rows))

\* ------------------------------------------------------------- Init
\* the two nodes of the mesh; a new engine with the messages msgs, its
\* registry empty, refresh_all about to start
MeshNodes == {"alpha", "beta"}

Engine(msgs) ==
    [messages |-> msgs, nodes |-> {}, job |-> "refresh_node_list", fetched |-> FALSE]

EngineInit ==
    /\ messages = {}
    /\ users = {}
    /\ files = {}
    /\ nodes = {}
    /\ committed = [messages |-> {}, users |-> {}, files |-> {}, nodes |-> {}]
    /\ pc = <<>>
    /\ todo = <<>>
    /\ polled = <<>>
    /\ raised = "none"
    /\ pruned = 0

Init ==
    /\ EngineInit
    /\ mesh = [n \in MeshNodes |-> Engine({})]

\* ------------------------------------------------------ the three merges
\* update_messages(feed) up to and including its own db.commit(); the call
\* to prune_messages that follows is the step PruneStep.  An exception
\* leaves every frame of the stack.
DoUpdateMessages(feed) ==
    /\ IF \E i \in 1..Len(feed) : ~IsHex(feed[i][1])
       THEN \* int(..., 16) raises while the list is built
            /\ raised' = "ValueError"
            /\ pc' = <<>>
            /\ UNCHANGED <<messages, committed>>
       ELSE LET rows == [i \in 1..Len(feed) |-> MsgTuple(feed[i])]
                res == ExecuteManyInsert(messages, rows)
            IN  /\ messages' = res.tbl
                /\ IF res.err = "ProgrammingError"
                   THEN /\ raised' = res.err
                        /\ pc' = <<>>
                        /\ UNCHANGED committed
                   ELSE /\ raised' = "none"
                        /\ committed' = [Tables EXCEPT !.messages = res.tbl]
                        /\ pc' = <<"prune_messages">> \o pc
    /\ UNCHANGED <<users, files, nodes, pruned>>

\* update_users(feed)
DoUpdateUsers(feed) ==
    /\ LET res == ExecuteManyReplaceUsers(users, feed)
       IN  /\ users' = res.tbl
           /\ raised' = res.err
           /\ IF res.err = "none"
              THEN committed' = [Tables EXCEPT !.users = res.tbl] /\ UNCHANGED pc
              ELSE pc' = <<>> /\ UNCHANGED committed
    /\ UNCHANGED <<messages, files, nodes, pruned>>

\* update_files(feed)
DoUpdateFiles(feed) ==
    /\ LET res == ExecuteManyReplaceFiles(files, feed)
       IN  /\ files' = res.tbl
           /\ raised' = res.err
           /\ IF res.err = "none"
              THEN committed' = [Tables EXCEPT !.files = res.tbl] /\ UNCHANGED pc
              ELSE pc' = <<>> /\ UNCHANGED committed
    /\ UNCHANGED <<messages, users, nodes, pruned>>

\* ------------------------------------------------- calls on an idle engine
UpdateMessages(feed) ==
    /\ Idle
    /\ DoUpdateMessages(feed)
    /\ UNCHANGED <<todo, polled, mesh>>

UpdateUsers(feed) ==
    /\ Idle
    /\ DoUpdateUsers(feed)
    /\ UNCHANGED <<todo, polled, mesh>>

UpdateFiles(feed) ==
    /\ Idle
    /\ DoUpdateFiles(feed)
    /\ UNCHANGED <<todo, polled, mesh>>

\* INSERT OR REPLACE INTO messages instead
CreateOrReplaceMessage(idhash, epoch) ==
    /\ Idle
    /\ messages' = {r \in messages : r.id # idhash}
                       \cup {MsgRow(<<idhash, epoch, "hello", "KB1XYZ", LocalNode, "pi", "general">>)}
    /\ committed' = [Tables EXCEPT !.messages = messages']
    /\ raised' = "none"
    /\ pc' = <<"prune_messages">>
    /\ UNCHANGED <<users, files, nodes, todo, polled, pruned, mesh>>

\* create_message up to and including its own db.commit(); idhash is the
\* id drawn from the md5 of the time and a random number
CreateMessage(idhash, epoch) ==
    /\ Idle
    /\ IF idhash \in IdsOf(messages)
       THEN \* the INSERT raises sqlite3.IntegrityError, which nothing catches
            /\ raised' = "IntegrityError"
            /\ UNCHANGED <<messages, committed, pc>>
       ELSE /\ messages' = messages \cup {MsgRow(<<idhash, epoch, "hello", "KB1XYZ", LocalNode, "pi", "general">>)}
            /\ committed' = [Tables EXCEPT !.messages = messages']
            /\ raised' = "none"
            /\ pc' = <<"prune_messages">>
    /\ UNCHANGED <<users, files, nodes, todo, polled, pruned, mesh>>

\* prune_messages, called last by update_messages and create_message
PruneStep ==
    /\ pc # <<>> /\ Head(pc) = "prune_messages"
    /\ messages' = PruneMessages(messages)
    /\ committed' = [Tables EXCEPT !.messages = messages']
    /\ pruned' = (IF Cardinality(messages) > max_messages
                   THEN Cardinality(messages) - max_messages ELSE 0)
    /\ pc' = Tail(pc)
    /\ UNCHANGED <<users, files, nodes, todo, polled, raised, mesh>>

Next ==
    \/ \E feed \in MsgFeeds : UpdateMessages(feed)
    \/ \E idhash \in MsgIds, epoch \in Epochs : CreateMessage(idhash, epoch)
    \/ PruneStep

Spec == Init /\ [][Next]_vars

\* update_messages as a whole, when it does not raise: the inserts, then
\* prune_messages
MergeMessages(tbl, feed) ==
    PruneMessages(ExecuteManyInsert(tbl, [i \in 1..Len(feed) |-> MsgTuple(feed[i])]).tbl)

\* ---------------------------------------------------------------------
\* The three merges on feeds that may hold a malformed line
MergeMsgLines == {MsgLine(42, 1), MsgLine(84, 2), ShortMsgLine, LongMsgLine, BadHexMsgLine}
MergeUserLines == {UserLine("KB1XYZ", "100"), UserLine("KB1XYZ", "200"), ShortUserLine}
MergeFileLines == {FileLine("10"), ShortFileLine}

MergeNext ==
    \/ \E feed \in SeqsUpTo(MergeMsgLines, MaxFeedLen) : UpdateMessages(feed)
    \/ PruneStep
    \/ \E feed \in SeqsUpTo(MergeUserLines, MaxFeedLen) : UpdateUsers(feed)
    \/ \E feed \in SeqsUpTo(MergeFileLines, MaxFeedLen) : UpdateFiles(feed)

MergeSpec == Init /\ [][MergeNext]_vars

\* ---------------------------------------------------------------------
\* The refresh cycles.  A nullable column is <<>> (NULL) or <<v>>.
Null == <<>>
Some(v) == <<v>>

Zone == "MeshChat"
MaxServices == 2

\* a service link "http://<hostname>:<port><path>", by its parts
Link(hostname, port, path) == <<"http", hostname, port, path>>

\* every link taken as one of path /meshchat
UrlParseAnyPath(link) == [hostname |-> link[2], port |-> link[3], path |-> "/meshchat"]

\* urllib.parse.urlparse(service['link'])
UrlParse(link) == [hostname |-> link[2], port |-> link[3], path |-> link[4]]

ServiceEntries ==
    {[name |-> Zone, link |-> Link("p1", 8080, "/meshchat")],
     [name |-> Zone, link |-> Link("p2", 8080, "/meshchat")],
     [name |-> "OtherZone", link |-> Link("p3", 8080, "/meshchat")],
     [name |-> Zone, link |-> Link("p3", 8080, "/other")]}

\* what sysinfo.json?services=1 may list
ServiceLists == SeqsUpTo(ServiceEntries, MaxServices)

RECURSIVE NodeList(_)
\* node_list: (hostname, port) of the services of the zone whose link path
\* is /meshchat, in the order listed
NodeList(services) ==
    IF Len(services) = 0 THEN <<>>
    ELSE LET service == Head(services)
             link == UrlParse(service.link)
         IN  (IF service.name = Zone /\ link.path = "/meshchat"
              THEN <<<<link.hostname, link.port>>>> ELSE <<>>)
             \o NodeList(Tail(services))

\* the table emptied before the row is written
TruncateInsertNode(tbl, node) ==
    {[name |-> node[1], port |-> node[2], messages_version |-> Null,
      alive |-> 0, last_polled |-> Null, non_mesh |-> Null]}

\* REPLACE INTO nodes (name, port, alive) VALUES (?, ?, 0): name is UNIQUE,
\* the columns not named become NULL
ReplaceNode(tbl, node) ==
    {r \in tbl : r.name # node[1]}
        \cup {[name |-> node[1], port |-> node[2], messages_version |-> Null,
               alive |-> 0, last_polled |-> Null, non_mesh |-> Null]}

RECURSIVE ExecuteManyReplaceNodes(_, _)
ExecuteManyReplaceNodes(tbl, node_list) ==
    IF Len(node_list) = 0 THEN tbl
    ELSE ExecuteManyReplaceNodes(ReplaceNode(tbl, Head(node_list)), Tail(node_list))

\* UPDATE nodes SET messages_version = ?, alive = 1 WHERE name = ?
SetVersionAlive(tbl, name, version) ==
    {IF r.name = name THEN [r EXCEPT !.messages_version = Some(version), !.alive = 1] ELSE r
        : r \in tbl}

\* UPDATE nodes SET last_polled = datetime('now') WHERE alive = 1
SetLastPolled(tbl) ==
    {IF r.alive = 1 THEN [r EXCEPT !.last_polled = Some("now")] ELSE r : r \in tbl}

\* the body of a messages_version response: a sequence of characters, the
\* digits 0..9 and 10 for any other character
IsDecimal(s) == Len(s) > 0 /\ \A i \in 1..Len(s) : s[i] \in 0..9

RECURSIVE DecimalValue(_, _)
DecimalValue(s, n) ==
    IF n = 0 THEN 0 ELSE 10 * DecimalValue(s, n - 1) + s[n]

\* int(messages_version_result.text)
ParseInt(s) == DecimalValue(s, Len(s))

TransportFailures == {"ConnectionError", "ReadTimeout"}
StatusCodes == {200, 404, 500}
VersionTexts == {<<4, 2>>, <<10>>}

\* what requests.get does: it raises, or it returns a response
Raises(exception) ==
    [exception |-> exception, status_code |-> 0, md5 |-> <<>>, content |-> <<>>]

Response(status, md5, content) ==
    [exception |-> "none", status_code |-> status, md5 |-> md5, content |-> content]

\* a messages_version response has no checksum; its content is the text
ProbeOutcomes ==
    {Raises(e) : e \in TransportFailures}
        \cup {Response(st, <<>>, text) : st \in StatusCodes, text \in VersionTexts}

\* hashlib.md5(content).hexdigest(): one digest per content
MD5(content) == <<"md5", content>>

\* the responses with body content: any status, the Content-MD5 header
\* absent, right, or that of another body
Responses(content) ==
    {Response(st, h, content) :
        st \in StatusCodes,
        h \in {Null, Some(MD5(content)), Some(MD5(<<content>>))}}

\* check_message_checksum
CheckMessageChecksum(result) ==
    IF result.md5 = Null \/ MD5(result.content) # result.md5[1] THEN FALSE ELSE TRUE

SyncMsgBodies == {<<>>, <<MsgLine(42, 1)>>}
SyncUserBodies == {<<>>, <<UserLine("KB1XYZ", "100")>>}
SyncFileBodies == {<<>>, <<FileLine("10")>>}

FetchOutcomes(bodies) ==
    {Raises(e) : e \in TransportFailures} \cup UNION {Responses(content) : content \in bodies}

\* the orders in which the rows of S can be returned
Orders(S) == {o \in [1..Cardinality(S) -> S] : \A i, j \in DOMAIN o : i # j => o[i] # o[j]}

\* get_node_list(alive=True)
AliveNodes == {r.name : r \in {n \in nodes : n.alive = 1}}

\* SELECT * FROM nodes WHERE alive = 1 instead
AllAliveNodes(tbl, version) == {r.name : r \in {n \in tbl : n.alive = 1}}

\* SELECT * FROM nodes WHERE messages_version != ? AND alive = 1
ChangedNodes(tbl, version) ==
    {r.name : r \in {n \in tbl : /\ n.messages_version # Null
                                  /\ n.messages_version[1] # version
                                  /\ n.alive = 1}}

\* an exception leaves the cycle
Abort(exception) ==
    /\ raised' = exception
    /\ pc' = <<>>
    /\ todo' = <<>>
    /\ polled' = <<>>

InCycle(name) == pc # <<>> /\ Head(pc) = name

\* refresh_node_list up to the loop: the directory is read, the candidates
\* are upserted
RefreshNodeListStart(services) ==
    /\ Idle
    /\ LET node_list == NodeList(services)
       IN  /\ nodes' = ExecuteManyReplaceNodes(nodes, node_list)
           /\ todo' = [i \in 1..Len(node_list) |-> node_list[i][1]]
    /\ pc' = <<"refresh_node_list">>
    /\ polled' = <<>>
    /\ raised' = "none"
    /\ UNCHANGED <<messages, users, files, committed, pruned, mesh>>

\* one iteration of the loop of refresh_node_list: the version probe
ProbeStep(outcome) ==
    /\ InCycle("refresh_node_list")
    /\ todo # <<>>
    /\ IF outcome.exception \in TransportFailures
       THEN \* continue
            /\ todo' = Tail(todo)
            /\ polled' = Append(polled, Head(todo))
            /\ UNCHANGED <<nodes, pc, raised>>
       ELSE IF ~IsDecimal(outcome.content)
       THEN \* int(...) raises
            /\ Abort("ValueError")
            /\ UNCHANGED nodes
       ELSE IF outcome.status_code # 200
       THEN \* two bindings are supplied for the one placeholder
            /\ Abort("ProgrammingError")
            /\ UNCHANGED nodes
       ELSE /\ nodes' = SetVersionAlive(nodes, Head(todo), ParseInt(outcome.content))
            /\ todo' = Tail(todo)
            /\ polled' = Append(polled, Head(todo))
            /\ UNCHANGED <<pc, raised>>
    /\ UNCHANGED <<messages, users, files, committed, pruned, mesh>>

\* the db.commit() that ends refresh_node_list
RefreshNodeListEnd ==
    /\ InCycle("refresh_node_list")
    /\ todo = <<>>
    /\ committed' = Tables
    /\ pc' = Tail(pc)
    /\ polled' = <<>>
    /\ UNCHANGED <<messages, users, files, nodes, todo, raised, pruned, mesh>>

\* refresh_messages, refresh_users, refresh_files up to the loop
RefreshStart(cycle) ==
    /\ Idle
    /\ \E order \in Orders(IF cycle = "refresh_messages"
                           THEN ChangedNodes(nodes, GetMessageVersion(messages))
                           ELSE AliveNodes) :
           todo' = order
    /\ pc' = <<cycle>>
    /\ polled' = <<>>
    /\ raised' = "none"
    /\ UNCHANGED <<messages, users, files, nodes, committed, pruned, mesh>>

\* fetch_raw_list for the next peer of the cycle
FetchStep(cycle, outcome) ==
    /\ InCycle(cycle)
    /\ todo # <<>>
    /\ IF outcome.exception = "ConnectionError"
       THEN /\ todo' = Tail(todo)
            /\ polled' = Append(polled, Head(todo))
            /\ UNCHANGED <<messages, users, files, nodes, committed, pc, raised, pruned>>
       ELSE IF outcome.exception = "ReadTimeout"
       THEN \* not caught by fetch_raw_list
            /\ Abort("ReadTimeout")
            /\ UNCHANGED <<messages, users, files, nodes, committed, pruned>>
       ELSE IF outcome.status_code = 404
       THEN /\ todo' = Tail(todo)
            /\ polled' = Append(polled, Head(todo))
            /\ UNCHANGED <<messages, users, files, nodes, committed, pc, raised, pruned>>
       ELSE IF CheckMessageChecksum(outcome) /\ Len(outcome.content) > 0
       THEN /\ CASE cycle = "refresh_messages" -> DoUpdateMessages(outcome.content)
                 [] cycle = "refresh_users" -> DoUpdateUsers(outcome.content)
                 [] cycle = "refresh_files" -> DoUpdateFiles(outcome.content)
            /\ todo' = (IF raised' = "none" THEN Tail(todo) ELSE <<>>)
            /\ polled' = (IF raised' = "none" THEN Append(polled, Head(todo)) ELSE <<>>)
       ELSE /\ todo' = Tail(todo)
            /\ polled' = Append(polled, Head(todo))
            /\ UNCHANGED <<messages, users, files, nodes, committed, pc, raised, pruned>>
    /\ UNCHANGED mesh

\* the end of refresh_messages: last_polled is set and committed
RefreshMessagesEnd ==
    /\ InCycle("refresh_messages")
    /\ todo = <<>>
    /\ nodes' = SetLastPolled(nodes)
    /\ committed' = [Tables EXCEPT !.nodes = nodes']
    /\ pc' = Tail(pc)
    /\ polled' = <<>>
    /\ UNCHANGED <<messages, users, files, todo, raised, pruned, mesh>>

\* refresh_users and refresh_files return when the loop is over
RefreshEnd(cycle) ==
    /\ InCycle(cycle)
    /\ todo = <<>>
    /\ pc' = Tail(pc)
    /\ polled' = <<>>
    /\ UNCHANGED <<messages, users, files, nodes, committed, todo, raised, pruned, mesh>>

SyncNext ==
    \/ \E services \in ServiceLists : RefreshNodeListStart(services)
    \/ \E outcome \in ProbeOutcomes : ProbeStep(outcome)
    \/ RefreshNodeListEnd
    \/ \E cycle \in {"refresh_messages", "refresh_users", "refresh_files"} : RefreshStart(cycle)
    \/ \E outcome \in FetchOutcomes(SyncMsgBodies) : FetchStep("refresh_messages", outcome)
    \/ \E outcome \in FetchOutcomes(SyncUserBodies) : FetchStep("refresh_users", outcome)
    \/ \E outcome \in FetchOutcomes(SyncFileBodies) : FetchStep("refresh_files", outcome)
    \/ PruneStep
    \/ RefreshMessagesEnd
    \/ \E cycle \in {"refresh_users", "refresh_files"} : RefreshEnd(cycle)

SyncSpec == Init /\ [][SyncNext]_vars

\* ---------------------------------------------------------------------
\* A mesh of two nodes, each running refresh_all's refresh_node_list and
\* refresh_messages against the other over reliable links.  A request is
\* answered by the peer's handler from the peer's committed store.
RECURSIVE Str(_)
\* str(n) for n >= 0, as a sequence of decimal digits
Str(n) == IF n < 10 THEN <<n>> ELSE Append(Str(n \div 10), n % 10)

\* (epoch, id) of a precedes that of b under ORDER BY epoch ASC, id ASC
AscBefore(a, b) == a.epoch < b.epoch \/ (a.epoch = b.epoch /\ a.id < b.id)

\* one line of get_raw_messages
RawMsgLine(row) ==
    <<FormatHex(row.id), row.epoch, row.message, row.call_sign, row.node,
      row.platform, row.channel>>

RECURSIVE GetRawMessages(_)
\* get_raw_messages, after splitlines(): the lines in (epoch, id) order
GetRawMessages(tbl) ==
    IF tbl = {} THEN <<>>
    ELSE LET first == CHOOSE r \in tbl : \A o \in tbl \ {r} : AscBefore(r, o)
         IN  <<RawMsgLine(first)>> \o GetRawMessages(tbl \ {first})

\* do_messages_version
DoMessagesVersion(tbl) == Response(200, Null, Str(GetMessageVersion(tbl)))

\* do_messages_raw, send_checksummed_text
DoMessagesRaw(tbl) ==
    LET response_text == GetRawMessages(tbl)
    IN  Response(200, Some(MD5(response_text)), response_text)

MeshPeer(n) == CHOOSE m \in MeshNodes : m # n

\* the directory of node n lists the service of its peer
MeshServices(n) == <<[name |-> Zone, link |-> Link(MeshPeer(n), 8080, "/meshchat")]>>

\* the rows the stores of the mesh may hold
MeshRows == {MsgRow(MsgTuple(line)) : line \in GoodMsgLines}

\* two stores that differ and whose union fits within max_messages; a
\* message has one id and is the same row wherever it is stored
MeshInit ==
    /\ EngineInit
    /\ \E a, b \in SUBSET MeshRows :
           /\ a # b
           /\ Cardinality(a \cup b) <= max_messages
           /\ Cardinality(IdsOf(a \cup b)) = Cardinality(a \cup b)
           /\ mesh = [n \in MeshNodes |-> Engine(IF n = "alpha" THEN a ELSE b)]

\* refresh_node_list on node n: the peer is upserted, probed, marked alive
MeshRefreshNodeList(n) ==
    /\ mesh[n].job = "refresh_node_list"
    /\ \E node_list \in {NodeList(MeshServices(n))} :
       \E messages_version_result \in {DoMessagesVersion(mesh[MeshPeer(n)].messages)} :
       \E probed \in {SetVersionAlive(ExecuteManyReplaceNodes(mesh[n].nodes, node_list),
                                      node_list[1][1],
                                      ParseInt(messages_version_result.content))} :
           mesh' = [mesh EXCEPT ![n].nodes = probed, ![n].job = "refresh_messages"]
    /\ UNCHANGED <<messages, users, files, nodes, committed, pc, todo, polled, raised, pruned>>

\* refresh_messages on node n: the peer is fetched when its recorded
\* version differs from the local one, its feed is merged when it passes
\* the checksum and is not empty, last_polled is set
MeshRefreshMessages(n) ==
    /\ mesh[n].job = "refresh_messages"
    /\ \E changed \in {ChangedNodes(mesh[n].nodes, GetMessageVersion(mesh[n].messages))} :
       \E result \in {DoMessagesRaw(mesh[MeshPeer(n)].messages)} :
       \E merged \in {IF /\ changed # {}
                         /\ CheckMessageChecksum(result)
                         /\ Len(result.content) > 0
                      THEN MergeMessages(mesh[n].messages, result.content)
                      ELSE mesh[n].messages} :
           mesh' = [mesh EXCEPT ![n].messages = merged,
                                ![n].nodes = SetLastPolled(@),
                                ![n].fetched = (changed # {}),
                                ![n].job = "refresh_node_list"]
    /\ UNCHANGED <<messages, users, files, nodes, committed, pc, todo, polled, raised, pruned>>

MeshNext ==
    \/ \E n \in MeshNodes : MeshRefreshNodeList(n)
    \/ \E n \in MeshNodes : MeshRefreshMessages(n)

\* every node keeps running its jobs
MeshSpec ==
    /\ MeshInit
    /\ [][MeshNext]_vars
    /\ \A n \in MeshNodes :
           WF_vars(MeshRefreshNodeList(n)) /\ WF_vars(MeshRefreshMessages(n))

\* C2: two nodes whose stores differ and whose union fits within
\* max_messages, running refresh_node_list then refresh_messages over and
\* over against each other, lose no message, and eventually and from then on
\* hold the same set (the union) with equal versions and fetch no feed.
C2_Convergence ==
    /\ [][\A n \in MeshNodes :
             /\ mesh[n].messages \subseteq mesh'[n].messages
             /\ mesh'[n].messages \subseteq mesh["alpha"].messages \cup mesh["beta"].messages]_vars
    /\ <>[](/\ mesh["alpha"].messages = mesh["beta"].messages
            /\ GetMessageVersion(mesh["alpha"].messages) = GetMessageVersion(mesh["beta"].messages)
            /\ \A n \in MeshNodes : ~mesh[n].fetched)

Cycles == {"refresh_messages", "refresh_users", "refresh_files"}

\* the bodies a peer may serve for the feed of a cycle
BodiesOf(cycle) ==
    CASE cycle = "refresh_messages" -> SyncMsgBodies
      [] cycle = "refresh_users" -> SyncUserBodies
      [] cycle = "refresh_files" -> SyncFileBodies

\* C6: in every refresh cycle a connection failure or a timeout of the
\* request to one peer does not end the cycle with an error: nothing stored
\* changes, and the cycle goes on with the remaining peers.
C6_TransportFailureIsolated ==
    [][\A failure \in TransportFailures :
          (\/ ProbeStep(Raises(failure))
           \/ \E cycle \in Cycles : FetchStep(cycle, Raises(failure)))
              => /\ raised' = "none"
                 /\ pc' = pc
                 /\ todo' = Tail(todo)
                 /\ UNCHANGED <<messages, users, files, nodes, committed>>]_vars

\* a 200 response with a Content-MD5 header that matches a non-empty body
IntegrityOK(result) ==
    /\ result.status_code = 200
    /\ result.md5 = Some(MD5(result.content))
    /\ result.content # <<>>

\* C7: a feed fetch changes the stores (the merge function runs) only when
\* the response is a 200 with a Content-MD5 header equal to the MD5 of a
\* non-empty body; with the header missing or different, or the body empty,
\* nothing is merged.
C7_IntegrityGate ==
    [][\A cycle \in Cycles : \A content \in BodiesOf(cycle) : \A result \in Responses(content) :
          (FetchStep(cycle, result) /\ ~IntegrityOK(result))
              => (pc' = pc /\ raised' = raised
                    /\ UNCHANGED <<messages, users, files, nodes, committed>>)]_vars

NonMesh(tbl, name) == \E r \in tbl : r.name = name /\ r.non_mesh = Some(1)

\* C8: a peer that answers a request with HTTP 404 is recorded with
\* non_mesh set and stays in the registry; a peer so marked keeps the mark
\* across later discovery upserts and is sent no feed request.
C8_NonMeshRecorded ==
    [][/\ \A text \in VersionTexts :
             ProbeStep(Response(404, <<>>, text)) => NonMesh(nodes', Head(todo))
       /\ \A cycle \in Cycles : \A content \in BodiesOf(cycle) : \A result \in Responses(content) :
             (result.status_code = 404 /\ FetchStep(cycle, result))
                 => NonMesh(nodes', Head(todo))
       /\ \A r \in nodes : r.non_mesh = Some(1) => NonMesh(nodes', r.name)
       /\ \A cycle \in Cycles : \A outcome \in FetchOutcomes(BodiesOf(cycle)) :
             FetchStep(cycle, outcome) => ~NonMesh(nodes, Head(todo))]_vars


WellFormedMsgFeeds == {feed \in MsgFeeds : WellFormedMsgFeed(feed)}

\* C1: update_messages is insert-only per row: after the inserts of a
\* well-formed feed (before pruning) into a store with nothing uncommitted,
\* every line whose id was not stored has a row, wherever a line with a
\* stored id stands in the feed, and the rows already stored are still there.
C1_InsertOnlyPerRow ==
    [][\A feed \in WellFormedMsgFeeds :
          (Tables = committed /\ UpdateMessages(feed)) =>
              /\ \A i \in 1..Len(feed) : ParseHex(feed[i][1]) \in IdsOf(messages')
              /\ messages \subseteq messages']_vars

\* C3: prune_messages with max_messages + k rows (k > 0) deletes exactly the
\* k rows that come first under (epoch DESC, id DESC) and leaves the others
\* as they are; with at most max_messages rows it deletes nothing; the count
\* afterwards is at most max_messages.
C3_PruneExact ==
    [][PruneStep =>
          LET k == Cardinality(messages) - max_messages
              deleted == messages \ messages'
          IN  /\ messages' \subseteq messages
              /\ IF k > 0
                 THEN /\ Cardinality(deleted) = k
                      /\ \A d \in deleted : \A r \in messages' :
                             d.epoch > r.epoch \/ (d.epoch = r.epoch /\ d.id > r.id)
                 ELSE deleted = {}
              /\ Cardinality(messages') <= max_messages
              /\ committed'.messages = messages']_vars

\* a prune that had to delete two rows has run
C3_Witness == Idle /\ pruned = 2 /\ Cardinality(messages) = max_messages

\* C4: starting from a store of at most max_messages messages with nothing
\* uncommitted, no merge or insert commits a state of the store, which any
\* other reader can observe, that holds more than max_messages messages.
C4_NeverObservablyOverLimit ==
    [][(Cardinality(messages) <= max_messages /\ Tables = committed)
          => Cardinality(committed'.messages) <= max_messages]_vars

\* C9: merging a well-formed messages feed twice in a row leaves the same
\* stored set as merging it once; the line 0000002a merged into an empty
\* store gives one message with id 42, and so does merging it again.
C9_MergeIdempotent ==
    /\ LET once == MergeMessages({}, <<MsgLine(42, 1)>>)
       IN  IdsOf(once) = {42} /\ Cardinality(once) = 1 /\ MergeMessages(once, <<MsgLine(42, 1)>>) = once
    /\ Idle =>
           \A feed \in WellFormedMsgFeeds :
               LET once == MergeMessages(messages, feed)
               IN  MergeMessages(once, feed) = once

\* C10: a duplicate message id is never an error: on a store with nothing
\* uncommitted, update_messages on a well-formed feed and create_message with
\* an id that is already stored both return without raising, and leave the
\* stored rows as they are.
C10_DuplicateNeverRaises ==
    [][/\ \A feed \in WellFormedMsgFeeds :
             (Tables = committed /\ UpdateMessages(feed))
                 => (raised' = "none" /\ messages \subseteq messages')
       /\ \A idhash \in MsgIds, epoch \in Epochs :
             (Tables = committed /\ idhash \in IdsOf(messages) /\ CreateMessage(idhash, epoch))
                 => (raised' = "none" /\ messages \subseteq messages')]_vars

\* a line that does not split into n fields
HasBadLine(feed, n) == \E i \in 1..Len(feed) : Len(feed[i]) # n

\* C5: a merge of a feed with a line of the wrong field count (7 for
\* messages, 5 for users and for files) fails as a whole and leaves the
\* store as it was, and no row of that feed is left behind for a later
\* commit of the same engine to publish.
C5_MalformedFeedAtomic ==
    /\ [][/\ \A feed \in SeqsUpTo(MergeMsgLines, MaxFeedLen) :
                (HasBadLine(feed, MsgFields) /\ UpdateMessages(feed))
                    => (raised' # "none" /\ messages' = messages /\ committed' = committed)
          /\ \A feed \in SeqsUpTo(MergeUserLines, MaxFeedLen) :
                (HasBadLine(feed, UserFields) /\ UpdateUsers(feed))
                    => (raised' # "none" /\ users' = users /\ committed' = committed)
          /\ \A feed \in SeqsUpTo(MergeFileLines, MaxFeedLen) :
                (HasBadLine(feed, FileFields) /\ UpdateFiles(feed))
                    => (raised' # "none" /\ files' = files /\ committed' = committed)]_vars
    /\ [](Idle => Tables = committed)

\* ---------------------------------------------------------------------
Names(tbl) == {r.name : r \in tbl}

\* C11: no step of any cycle removes a name from the registry, neither from
\* the engine's view of it nor from the committed one: a peer that was
\* upserted once has a row in every later state.
C11_RegistryNeverLoses ==
    [][/\ Names(nodes) \subseteq Names(nodes')
       /\ Names(committed.nodes) \subseteq Names(committed'.nodes)]_vars

\* a cycle whose directory listed p2 only has probed it, and p1 has its row
C11_Witness ==
    /\ InCycle("refresh_node_list")
    /\ polled = <<"p2">> /\ todo = <<>>
    /\ "p1" \in Names(nodes)

Range(seq) == {seq[i] : i \in 1..Len(seq)}

\* C12: discovery upserts its candidates with alive = 0; a candidate whose
\* probe fails stays at alive = 0; and when a refresh_node_list cycle
\* completes, every row of the registry that the cycle did not probe (a peer
\* the directory no longer lists) has alive = 0.
C12_AliveReflectsLatestProbe ==
    [][/\ \A services \in ServiceLists :
             RefreshNodeListStart(services) =>
                 \A r \in nodes' : r.name \in Range(todo') => r.alive = 0
       /\ \A failure \in TransportFailures :
             (ProbeStep(Raises(failure)) /\ Head(todo) \notin Range(polled)) =>
                 \A r \in nodes' : r.name = Head(todo) => r.alive = 0
       /\ RefreshNodeListEnd =>
             \A r \in nodes' : r.name \notin Range(polled) => r.alive = 0]_vars

\* ---------------------------------------------------------------------
\* The users and files merges on feeds of several users
UserFeedLines ==
    {UserLine("KB1XYZ", "100"), UserLine("KB1XYZ", "200"), OtherPlatformUserLine,
     UserLine("W1AW", "100"), ShortUserLine}

UserFeeds == SeqsUpTo(UserFeedLines, MaxFeedLen)

UsersNext ==
    \/ \E feed \in UserFeeds : UpdateUsers(feed)
    \/ \E feed \in SeqsUpTo(MergeFileLines, MaxFeedLen) : UpdateFiles(feed)

UsersSpec == Init /\ [][UsersNext]_vars

\* the key of a users row, and of a users line
UserKey(row) == <<row.id, row.call_sign, row.node>>
UserLineKey(line) == <<line[2], line[1], line[3]>>

\* C13: update_users of a feed of five-field lines leaves, for every key
\* (id, call_sign, node) of the feed, exactly one row: that of the last line
\* of the feed with the key, whatever row of that key was stored and whatever
\* the epochs are; the rows of the other keys are the ones stored before.
C13_UserUpsertLastWins ==
    [][\A feed \in UserFeeds :
          (~HasBadLine(feed, UserFields) /\ UpdateUsers(feed)) =>
              LET keys == {UserLineKey(feed[i]) : i \in 1..Len(feed)}
              IN  /\ \A i \in 1..Len(feed) :
                         (\A j \in (i + 1)..Len(feed) : UserLineKey(feed[j]) # UserLineKey(feed[i]))
                             => {r \in users' : UserKey(r) = UserLineKey(feed[i])}
                                    = {UserRow(feed[i])}
                  /\ {r \in users' : UserKey(r) \notin keys}
                         = {r \in users : UserKey(r) \notin keys}
                  /\ raised' = "none"
                  /\ committed'.users = users']_vars

\* the row of KB1XYZ is the one of the line with the smallest epoch, next to
\* the row of another user
C13_Witness ==
    /\ Idle /\ raised = "none"
    /\ users = {UserRow(OtherPlatformUserLine), UserRow(UserLine("W1AW", "100"))}

\* ---------------------------------------------------------------------
\* The local users and files of a node, and the raw feeds that serve them
\* update_local_user
UpdateLocalUser(callsign, id, epoch) ==
    /\ Idle
    /\ users' = ReplaceUser(users, [call_sign |-> callsign, id |-> id, node |-> LocalNode,
                                     epoch |-> epoch, platform |-> "pi"])
    /\ committed' = [Tables EXCEPT !.users = users']
    /\ raised' = "none"
    /\ UNCHANGED <<messages, files, nodes, pc, todo, polled, pruned, mesh>>

\* store_file, once the upload is saved: a plain INSERT, UNIQUE(file, node)
StoreFile(file, size, epoch) ==
    /\ Idle
    /\ IF \E r \in files : r.file = file /\ r.node = LocalNode
       THEN /\ raised' = "IntegrityError"
            /\ UNCHANGED <<files, committed>>
       ELSE /\ files' = files \cup {[file |-> file, node |-> LocalNode, size |-> size,
                                      epoch |-> epoch, platform |-> "pi", local |-> 1]}
            /\ committed' = [Tables EXCEPT !.files = files']
            /\ raised' = "none"
    /\ UNCHANGED <<messages, users, nodes, pc, todo, polled, pruned, mesh>>

\* one line of get_raw_users: SELECT * gives the columns in the order of
\* CREATE TABLE users (id, call_sign, epoch, node, platform)
RawUserLine(row) == <<row.id, row.call_sign, row.epoch, row.node, row.platform>>

\* one line of get_raw_files: SELECT file, node, size, epoch, platform
RawFileLine(row) == <<row.file, row.node, row.size, row.epoch, row.platform>>

\* get_raw_users(local_only=True), after splitlines(): the rows of this
\* node, in any of the orders the query may return them
GetRawUsers(tbl) ==
    {[i \in DOMAIN o |-> RawUserLine(o[i])] : o \in Orders({r \in tbl : r.node = LocalNode})}

\* get_raw_files(local_only=True)
GetRawFiles(tbl) ==
    {[i \in DOMAIN o |-> RawFileLine(o[i])] : o \in Orders({r \in tbl : r.local = 1})}

ExportNext ==
    \/ \E callsign \in {"KB1XYZ", "W1AW"}, id \in {"id1", "id2"}, epoch \in {"100", "200"} :
           UpdateLocalUser(callsign, id, epoch)
    \/ \E file \in {"a.txt", "b.txt"} : StoreFile(file, "10", "100")

ExportSpec == Init /\ [][ExportNext]_vars

\* C14: what a node serves as users_raw, merged by update_users into the
\* empty store of a peer, gives the peer the node's own users rows with the
\* same call_sign, id, node, epoch and platform; what it serves as
\* local_files_raw, merged by update_files, gives the peer its local files
\* rows (as not local); what it serves as messages_raw, merged by
\* update_messages, gives the peer its messages.
C14_FeedRoundTrip ==
    Idle =>
        /\ \A feed \in GetRawUsers(users) :
               ExecuteManyReplaceUsers({}, feed).tbl = {r \in users : r.node = LocalNode}
        /\ \A feed \in GetRawFiles(files) :
               ExecuteManyReplaceFiles({}, feed).tbl
                   = {[r EXCEPT !.local = 0] : r \in {f \in files : f.local = 1}}
        /\ Cardinality(messages) <= max_messages
               => MergeMessages({}, GetRawMessages(messages)) = messages

\* C15: a probe that is answered with a decimal body records the parsed
\* integer as the peer's messages_version and sets alive = 1, and returns
\* normally, whatever the HTTP status of the answer is.
C15_ProbeRecordsVersion ==
    [][\A st \in StatusCodes : \A text \in VersionTexts :
          (IsDecimal(text) /\ ProbeStep(Response(st, Null, text))) =>
              /\ raised' = "none"
              /\ \E r \in nodes' : /\ r.name = Head(todo)
                                   /\ r.messages_version = Some(ParseInt(text))
                                   /\ r.alive = 1]_vars

\* C16: message ids are unique, and a stored message stays in the store as
\* the very same row (epoch, message, call_sign, node, platform, channel)
\* over every step, except that a prune_messages step may delete it.
C16_MessagesImmutable ==
    [][/\ \A r1, r2 \in messages' : r1.id = r2.id => r1 = r2
       /\ \A r \in messages :
             r \notin messages' => (PruneStep /\ r.id \notin IdsOf(messages'))]_vars

\* two messages are stored after a prune_messages that deleted one
C16_Witness == Idle /\ pruned = 1 /\ Cardinality(messages) = 2

RECURSIVE SeqSum(_)
\* the ids of a sequence of rows added up from left to right
SeqSum(rows) == IF rows = <<>> THEN 0 ELSE rows[1].id + SeqSum(Tail(rows))

\* C17: in every state get_message_version is the arithmetic sum of the
\* stored ids, added up in any order of the rows, and 0 for an empty store;
\* any store with the same ids, whatever else its rows hold, has the same
\* version.
C17_VersionIsSumOfIds ==
    /\ \A o \in Orders(messages) : GetMessageVersion(messages) = SeqSum(o)
    /\ messages = {} => GetMessageVersion(messages) = 0
    /\ \A other \in SUBSET MeshRows :
           IdsOf(other) = IdsOf(messages)
               => GetMessageVersion(other) = GetMessageVersion(messages)

\* 0x2a and 0x54 are the messages left by inserts and a prune
C17_Witness ==
    /\ Idle /\ pruned > 0
    /\ IdsOf(messages) = {42, 84}
    /\ GetMessageVersion(messages) = 126

\* C18: the upsert of refresh_node_list writes a row for exactly the listed
\* services named as the zone whose link has the path /meshchat, under the
\* hostname and with the port of the link; every other row of the registry
\* is left as it is, and the hostnames to probe are those, in listed order.
C18_DiscoveryFilter ==
    [][\A services \in ServiceLists :
          RefreshNodeListStart(services) =>
              LET matching == {i \in 1..Len(services) :
                                  /\ services[i].name = Zone
                                  /\ services[i].link[4] = "/meshchat"}
                  hosts == {services[i].link[2] : i \in matching}
              IN  /\ Names(nodes') = Names(nodes) \cup hosts
                  /\ \A r \in nodes : r.name \notin hosts => r \in nodes'
                  /\ \A r \in nodes' : r.name \notin hosts => r \in nodes
                  /\ \A r \in nodes' : r.name \in hosts =>
                         \E i \in matching : /\ r.name = services[i].link[2]
                                             /\ r.port = services[i].link[3]
                  /\ Range(todo') = hosts
                  /\ Len(todo') = Cardinality(matching)]_vars

\* the directory listed p1 and p2, which are upserted and still to probe;
\* p3, which is never listed under the zone with the path, has no row
C18_Witness ==
    /\ InCycle("refresh_node_list")
    /\ todo = <<"p1", "p2">> /\ polled = <<>>
    /\ Names(nodes) = {"p1", "p2"}
    /\ "p3" \notin Names(nodes)

\* the row of the registry for a peer
NodeRow(tbl, name) == CHOOSE r \in tbl : r.name = name

\* C19, as stated: every messages_raw request of a refresh_messages cycle
\* goes to a peer that is alive and whose recorded messages_version differs
\* from the local version at the time of the request, and that has had no
\* request in this cycle.
C19_PollsOnlyChangedPeers ==
    [][\A outcome \in FetchOutcomes(SyncMsgBodies) :
          FetchStep("refresh_messages", outcome) =>
              LET peer == NodeRow(nodes, Head(todo))
              IN  /\ peer.alive = 1
                  /\ peer.messages_version # Null
                  /\ peer.messages_version[1] # GetMessageVersion(messages)
                  /\ Head(todo) \notin Range(polled)]_vars

\* C19, amended: a refresh_messages cycle selects, when it starts, exactly
\* the peers that are alive and whose recorded messages_version differs from
\* the local version of that moment, each once; its requests go to the
\* selected peers one after the other, each at most once, and no peer is
\* added to the selection while the cycle runs.
C19_PollsPeersChangedAtStart ==
    [][/\ RefreshStart("refresh_messages") =>
             /\ Range(todo') = {r.name : r \in {n \in nodes :
                                    /\ n.alive = 1
                                    /\ n.messages_version # Null
                                    /\ n.messages_version[1] # GetMessageVersion(messages)}}
             /\ \A i, j \in 1..Len(todo') : todo'[i] = todo'[j] => i = j
       /\ \A outcome \in FetchOutcomes(SyncMsgBodies) :
             FetchStep("refresh_messages", outcome) =>
                 /\ NodeRow(nodes, Head(todo)).alive = 1
                 /\ Head(todo) \notin Range(polled)
                 /\ todo' \in {Tail(todo), <<>>}
       /\ (InCycle("refresh_messages") \/ InCycle("prune_messages")) =>
             /\ Range(todo') \subseteq Range(todo)
             /\ messages' # messages =>
                    \/ PruneStep
                    \/ \E outcome \in FetchOutcomes(SyncMsgBodies) :
                           FetchStep("refresh_messages", outcome)]_vars

\* both p1 and p2 have had their request in one cycle, and 0x2a is stored
C19_Witness ==
    /\ pc = <<"refresh_messages">>
    /\ Len(polled) = 2 /\ todo = <<>>
    /\ IdsOf(messages) = {42}

\* the cycle a step belongs to: the outermost call on the stack, before the
\* step or (for the step that starts a cycle) after it
CycleOf(stack) == IF stack = <<>> THEN "none" ELSE stack[Len(stack)]
StepCycle == IF pc # <<>> THEN CycleOf(pc) ELSE CycleOf(pc')

\* the registry without its last_polled column
WithoutLastPolled(tbl) == {[r EXCEPT !.last_polled = Null] : r \in tbl}

\* C20: a step of refresh_users changes no table but users; a step of
\* refresh_files changes no table but files, and every row it writes has
\* local = 0; a step of refresh_messages (its merges and prunes included)
\* changes no table but messages and no column of nodes but last_polled; a
\* step of refresh_node_list changes no table but nodes.
C20_RefreshCyclesDisjoint ==
    [][/\ StepCycle = "refresh_users" =>
             messages' = messages /\ files' = files /\ nodes' = nodes
       /\ StepCycle = "refresh_files" =>
             /\ messages' = messages /\ users' = users /\ nodes' = nodes
             /\ \A r \in files' \ files : r.local = 0
       /\ StepCycle = "refresh_messages" =>
             /\ users' = users /\ files' = files
             /\ WithoutLastPolled(nodes') = WithoutLastPolled(nodes)
             /\ Names(nodes') = Names(nodes)
       /\ StepCycle = "refresh_node_list" =>
             messages' = messages /\ users' = users /\ files' = files]_vars

\* refresh_files has merged a peer's list while every other table holds rows
C20_Witness ==
    /\ InCycle("refresh_files")
    /\ Len(polled) = 1
    /\ files # {} /\ messages # {} /\ users # {} /\ nodes # {}
    /\ \E r \in nodes : r.last_polled # Null

\* the store when the call that this step begins has returned or raised:
\* update_messages and create_message end with self.prune_messages() unless
\* an exception left them before
StoreAfterCall == IF pc' # <<>> /\ Head(pc') = "prune_messages"
                  THEN PruneMessages(messages')
                  ELSE messages'

\* C21: on a store that holds exactly max_messages messages, nothing
\* uncommitted, (1) create_message with a fresh id and an epoch greater than
\* every stored epoch leaves the stored set as it was before the call, and
\* (2) after any create_message or update_messages the retained rows are
\* exactly the max_messages smallest, in (epoch, id) order, of the rows the
\* store held before the prune.
C21_FullStoreKeepsSmallest ==
    [][(Idle /\ Cardinality(messages) = max_messages /\ Tables = committed) =>
          /\ \A idhash \in MsgIds, epoch \in Epochs :
                (/\ CreateMessage(idhash, epoch)
                 /\ idhash \notin IdsOf(messages)
                 /\ \A r \in messages : epoch > r.epoch)
                    => StoreAfterCall = messages
          /\ ((\E idhash \in MsgIds, epoch \in Epochs : CreateMessage(idhash, epoch))
                  \/ (\E feed \in MsgFeeds : UpdateMessages(feed)))
                => /\ Cardinality(StoreAfterCall) = max_messages
                   /\ StoreAfterCall \subseteq messages'
                   /\ \A kept \in StoreAfterCall : \A gone \in messages' \ StoreAfterCall :
                          \/ kept.epoch < gone.epoch
                          \/ kept.epoch = gone.epoch /\ kept.id < gone.id]_vars

====
